---- MODULE Spec2Model ----
(***************************************************************************)
(* svg2tikz.py: parse_svg_path and the per-path loop of svg_paths_to_tikz. *)
(*                                                                         *)
(* A path description is held as the token list re.findall returns         *)
(* (svg2tikz.py line 20).  Numbers are integers: potrace writes integer    *)
(* decipoints, and float() of such a literal is exact.  A transformed      *)
(* coordinate c * 0.1 * (target_width_cm / width_pt) is held as the exact  *)
(* numerator c * target_width_cm over the denominator 10 * width_pt, and   *)
(* is turned into text by the model of the :.3f / :.2f conversions.  For   *)
(* the documents used here no value lies on a rounding tie, where the      *)
(* binary float error of the source would decide.                          *)
(* One document holds one path element; paths do not share state.          *)
(***************************************************************************)
EXTENDS Integers, Sequences, FiniteSets, TLC

VARIABLES
    width_pt, height_pt, target_width_cm, min_path_points,
    d, pc, commands, ci,
    cx, cy, sx, sy,
    tikz_parts, point_count, min_x, max_x, min_y, max_y,
    tikz_lines

doc_vars == <<width_pt, height_pt, target_width_cm, min_path_points, d>>
pen_vars == <<cx, cy, sx, sy>>
bbox_vars == <<min_x, max_x, min_y, max_y>>
walk_vars == <<cx, cy, sx, sy, tikz_parts, point_count, min_x, max_x, min_y, max_y>>
vars == <<width_pt, height_pt, target_width_cm, min_path_points, d, pc, commands, ci,
          cx, cy, sx, sy, tikz_parts, point_count, min_x, max_x, min_y, max_y, tikz_lines>>

---------------------------------------------------------------------------
(* Bounds of the input sets. *)

\* Most numbers that follow the free command letter of a description.
MaxArgs == 14
\* Most explicit relative line commands after the initial relative move.
MaxLines == 2

(* Program constants. *)
DefaultMinPoints == 3
DefaultTargetWidth == 8
DefaultWidthPt == 725
DefaultHeightPt == 513

---------------------------------------------------------------------------
(* Tokens *)

Letters ==
    {"M", "m", "C", "c", "L", "l", "H", "h", "V", "v",
     "Z", "z", "S", "s", "Q", "q", "T", "t", "A", "a"}

\* current_cmd = None
None == "None"

Cmd(c) == [alpha |-> TRUE, c |-> c, v |-> 0]
Num(v) == [alpha |-> FALSE, c |-> "", v |-> v]

\* tokens[i].isalpha()
isalpha(tok) == tok.alpha

\* float(tokens[i]) of an integer literal
ToFloat(tok) == tok.v

---------------------------------------------------------------------------
(* parse_svg_path *)

arg_counts ==
    ("M" :> 2 @@ "m" :> 2 @@ "L" :> 2 @@ "l" :> 2 @@
     "H" :> 1 @@ "h" :> 1 @@ "V" :> 1 @@ "v" :> 1 @@
     "C" :> 6 @@ "c" :> 6 @@ "S" :> 4 @@ "s" :> 4 @@
     "Q" :> 4 @@ "q" :> 4 @@ "T" :> 2 @@ "t" :> 2 @@
     "Z" :> 0 @@ "z" :> 0 @@ "A" :> 7 @@ "a" :> 7)

\* arg_counts.get(current_cmd, 0)
Expected(current_cmd) ==
    IF current_cmd \in DOMAIN arg_counts THEN arg_counts[current_cmd] ELSE 0

ImplicitRepeat_NoSwitch(current_cmd) ==
    current_cmd

\* Implicit repeat: M->L, m->l, others repeat
ImplicitRepeat(current_cmd) ==
    IF current_cmd = "M" THEN "L"
    ELSE IF current_cmd = "m" THEN "l"
    ELSE current_cmd

Command(cmd, args) == [cmd |-> cmd, args |-> args]

\* The while loop: the state it ends in, from position i (1-based).
RECURSIVE ParseLoop(_, _, _, _, _)
ParseLoop(tokens, i, current_cmd, args, cmds) ==
    IF i > Len(tokens)
    THEN [current_cmd |-> current_cmd, args |-> args, commands |-> cmds]
    ELSE IF isalpha(tokens[i])
    THEN ParseLoop(tokens, i + 1, tokens[i].c, <<>>,
                   IF current_cmd # None
                   THEN Append(cmds, Command(current_cmd, args))
                   ELSE cmds)
    ELSE LET args1 == Append(args, ToFloat(tokens[i]))
             expected == Expected(current_cmd)
         IN  IF expected > 0 /\ Len(args1) = expected
             THEN ParseLoop(tokens, i + 1, ImplicitRepeat(current_cmd), <<>>,
                            Append(cmds, Command(current_cmd, args1)))
             ELSE ParseLoop(tokens, i + 1, current_cmd, args1, cmds)

\* The condition of the flush after the loop.
FlushesAtEnd(current_cmd, args) ==
    current_cmd # None /\ (args # <<>> \/ current_cmd \in {"z", "Z"})

parse_svg_path(tokens) ==
    LET end == ParseLoop(tokens, 1, None, <<>>, <<>>)
    IN  IF FlushesAtEnd(end.current_cmd, end.args)
        THEN Append(end.commands, Command(end.current_cmd, end.args))
        ELSE end.commands

---------------------------------------------------------------------------
(* Coordinates and their text *)

\* A transformed coordinate c * 0.1 * scale, scale = target_width_cm / width_pt,
\* as a numerator over Den.
Transform_ByHeight(c) ==
    (c * target_width_cm * width_pt) \div height_pt

Transform(c) ==
    c * target_width_cm

Den == 10 * width_pt

\* float('inf'), float('-inf') and finite values of the bounding box.
PosInf == [inf |-> 1, num |-> 0]
NegInf == [inf |-> -1, num |-> 0]
Fin(n) == [inf |-> 0, num |-> n]

\* min(min_x, tx), max(max_x, tx)
ExtMin(a, n) ==
    IF a.inf = 1 THEN Fin(n)
    ELSE IF a.inf = -1 THEN a
    ELSE IF n < a.num THEN Fin(n) ELSE a

ExtMax(a, n) ==
    IF a.inf = -1 THEN Fin(n)
    ELSE IF a.inf = 1 THEN a
    ELSE IF n > a.num THEN Fin(n) ELSE a

\* max_x - min_x; max_x is never +inf and min_x never -inf.
ExtSub(a, b) ==
    IF a.inf # 0 THEN a
    ELSE IF b.inf # 0 THEN [inf |-> 0 - b.inf, num |-> 0]
    ELSE Fin(a.num - b.num)

Abs(n) == IF n < 0 THEN 0 - n ELSE n

RECURSIVE Pow10(_)
Pow10(p) == IF p = 0 THEN 1 ELSE 10 * Pow10(p - 1)

\* The digits of n, zero-padded on the left to the given width.
RECURSIVE ZeroPad(_, _)
ZeroPad(n, width) ==
    IF width = 0 THEN ""
    ELSE ZeroPad(n \div 10, width - 1) \o ToString(n % 10)

\* |num| / den in units of 10^-places, rounded to nearest (ties to even).
RoundScaled(num, den, places) ==
    LET scaled == Abs(num) * Pow10(places)
        q == scaled \div den
        r == scaled % den
    IN  IF 2 * r > den THEN q + 1
        ELSE IF 2 * r < den THEN q
        ELSE IF q % 2 = 0 THEN q ELSE q + 1

\* f"{value:.<places>f}" of value = num / den, den > 0.
FixedPoint(num, den, places) ==
    LET m == RoundScaled(num, den, places)
    IN  (IF num < 0 THEN "-" ELSE "")
        \o ToString(m \div Pow10(places)) \o "." \o ZeroPad(m % Pow10(places), places)

\* f"{tx:.3f}"
Fmt3(n) == FixedPoint(n, Den, 3)

\* f"{min_x:.2f}" of a bounding-box value
Fmt2(a) ==
    IF a.inf = 1 THEN "inf"
    ELSE IF a.inf = -1 THEN "-inf"
    ELSE FixedPoint(a.num, Den, 2)

\* f"({tx:.3f},{ty:.3f})"
Point(tx, ty) == "(" \o Fmt3(tx) \o "," \o Fmt3(ty) \o ")"

MoveTo(tx, ty) == Point(tx, ty)
LineTo(tx, ty) == "-- " \o Point(tx, ty)
CurveTo(c1x, c1y, c2x, c2y, ex, ey) ==
    ".. controls " \o Point(c1x, c1y) \o " and " \o Point(c2x, c2y)
    \o " .. " \o Point(ex, ey)
CloseAndFill == "-- cycle"

---------------------------------------------------------------------------
(* Inputs *)

\* The j-th number after the free letter: distinct, of both signs.
NumStream(j) == (IF j % 3 = 0 THEN -125 ELSE 125) * j

Nums(n) == [j \in 1..n |-> Num(NumStream(j))]

\* A free segment: no letter or any letter, then 0..MaxArgs numbers.
Mids ==
    {Nums(n) : n \in 0..MaxArgs}
    \cup {<<Cmd(c)>> \o Nums(n) : c \in Letters, n \in 0..MaxArgs}

MoveAbs == <<Cmd("M"), Num(500), Num(500)>>
LinesClose ==
    <<Cmd("L"), Num(1000), Num(500), Cmd("L"), Num(1000), Num(1000), Cmd("Z")>>
RelHead == <<Cmd("m"), Num(1), Num(1), Cmd("l"), Num(2), Num(2)>>
RelTail == <<Cmd("l"), Num(3), Num(3)>>

\* What stands before and after the free segment.
Frames ==
    {<< <<>>, <<>> >>, << <<>>, <<Cmd("z")>> >>,
     <<MoveAbs, LinesClose>>, <<RelHead, RelTail>>}

DeltaPairs == {<<1, 1>>, <<2, 2>>, <<3, 3>>, <<-4, 7>>}

\* "m dx0 dy0 l dx1 dy1 ... l dxk dyk" for the pairs f[1..k+1].
ChainTokens(f) ==
    [p \in 1..(3 * Len(f)) |->
        LET i == ((p - 1) \div 3) + 1
            r == (p - 1) % 3
        IN  IF r = 0 THEN Cmd(IF i = 1 THEN "m" ELSE "l") ELSE Num(f[i][r])]

RelChains ==
    UNION {{ChainTokens(f) : f \in [1..(k + 1) -> DeltaPairs]} : k \in 0..MaxLines}

Descriptions ==
    {fr[1] \o m \o fr[2] : fr \in Frames, m \in Mids} \cup RelChains

\* width, height (pt) and target width (cm) of the document and the call.
Documents ==
    {[width |-> 100, height |-> 100, target |-> 10],
     [width |-> 100, height |-> DefaultHeightPt, target |-> 10],
     [width |-> DefaultWidthPt, height |-> DefaultHeightPt, target |-> DefaultTargetWidth]}

Thresholds == (-1)..(DefaultMinPoints + 1)

---------------------------------------------------------------------------
(* svg_paths_to_tikz: the body of the loop over the path elements *)

Init ==
    /\ \E doc \in Documents :
          /\ width_pt = doc.width
          /\ height_pt = doc.height
          /\ target_width_cm = doc.target
    /\ min_path_points \in Thresholds
    /\ d \in Descriptions
    /\ pc = "read"
    /\ commands = <<>>
    /\ ci = 0
    /\ cx = 0 /\ cy = 0 /\ sx = 0 /\ sy = 0
    /\ tikz_parts = <<>>
    /\ point_count = 0
    /\ min_x = PosInf /\ max_x = NegInf
    /\ min_y = PosInf /\ max_y = NegInf
    /\ tikz_lines = <<>>

\* if not d: continue
SkipNoDescription ==
    /\ pc = "read"
    /\ d = <<>>
    /\ pc' = "done"
    /\ UNCHANGED <<doc_vars, commands, ci, walk_vars, tikz_lines>>

\* len(commands) < min_path_points
TooFewCommands(cmds) ==
    Len(cmds) < min_path_points

\* commands = parse_svg_path(d); too few commands: continue
SkipFewCommands ==
    /\ pc = "read"
    /\ commands' = parse_svg_path(d)
    /\ TooFewCommands(commands')
    /\ pc' = "done"
    /\ UNCHANGED <<doc_vars, ci, walk_vars, tikz_lines>>

\* commands = parse_svg_path(d); the locals of the walk are set
StartWalk ==
    /\ pc = "read"
    /\ commands' = parse_svg_path(d)
    /\ ~TooFewCommands(commands')
    /\ pc' = "walk"
    /\ ci' = 1
    /\ cx' = 0 /\ cy' = 0 /\ sx' = 0 /\ sy' = 0
    /\ tikz_parts' = <<>>
    /\ point_count' = 0
    /\ min_x' = PosInf /\ max_x' = NegInf
    /\ min_y' = PosInf /\ max_y' = NegInf
    /\ UNCHANGED <<doc_vars, tikz_lines>>

arg_needed ==
    ("M" :> 2 @@ "m" :> 2 @@ "L" :> 2 @@ "l" :> 2 @@ "C" :> 6 @@ "c" :> 6 @@
     "H" :> 1 @@ "h" :> 1 @@ "V" :> 1 @@ "v" :> 1 @@ "S" :> 4 @@ "s" :> 4)

\* cmd in arg_needed and len(args) < arg_needed[cmd]
Malformed(c) ==
    c.cmd \in DOMAIN arg_needed /\ Len(c.args) < arg_needed[c.cmd]

\* The command the for loop is at.
InWalk == pc = "walk" /\ ci <= Len(commands)
Cur == commands[ci]

\* One iteration that takes the branch of the given kinds.
At(kinds) == InWalk /\ ~Malformed(Cur) /\ Cur.cmd \in kinds

Advance == ci' = ci + 1 /\ UNCHANGED <<doc_vars, pc, commands, tikz_lines>>

\* tikz_parts.append(..); point_count += 1; bounding box update
EmitPoint(part, tx, ty) ==
    /\ tikz_parts' = Append(tikz_parts, part)
    /\ point_count' = point_count + 1
    /\ min_x' = ExtMin(min_x, tx) /\ max_x' = ExtMax(max_x, tx)
    /\ min_y' = ExtMin(min_y, ty) /\ max_y' = ExtMax(max_y, ty)

WalkSkipMalformed_Break ==
    /\ InWalk
    /\ Malformed(Cur)
    /\ UNCHANGED walk_vars
    /\ ci' = Len(commands) + 1
    /\ UNCHANGED <<doc_vars, pc, commands, tikz_lines>>

\* continue  # skip malformed commands
WalkSkipMalformed ==
    /\ InWalk
    /\ Malformed(Cur)
    /\ UNCHANGED walk_vars
    /\ Advance

WalkM ==
    /\ At({"M"})
    /\ cx' = Cur.args[1] /\ cy' = Cur.args[2]
    /\ sx' = cx' /\ sy' = cy'
    /\ EmitPoint(MoveTo(Transform(cx'), Transform(cy')), Transform(cx'), Transform(cy'))
    /\ Advance

Walkm ==
    /\ At({"m"})
    /\ cx' = cx + Cur.args[1] /\ cy' = cy + Cur.args[2]
    /\ sx' = cx' /\ sy' = cy'
    /\ EmitPoint(MoveTo(Transform(cx'), Transform(cy')), Transform(cx'), Transform(cy'))
    /\ Advance

\* Relative cubic bezier
Walkc ==
    /\ At({"c"})
    /\ LET a == Cur.args
           ex == Transform(cx + a[5])
           ey == Transform(cy + a[6])
       IN  /\ EmitPoint(CurveTo(Transform(cx + a[1]), Transform(cy + a[2]),
                                Transform(cx + a[3]), Transform(cy + a[4]), ex, ey),
                        ex, ey)
           /\ cx' = cx + a[5] /\ cy' = cy + a[6]
    /\ UNCHANGED <<sx, sy>>
    /\ Advance

WalkC ==
    /\ At({"C"})
    /\ LET a == Cur.args
           ex == Transform(a[5])
           ey == Transform(a[6])
       IN  /\ EmitPoint(CurveTo(Transform(a[1]), Transform(a[2]),
                                Transform(a[3]), Transform(a[4]), ex, ey),
                        ex, ey)
           /\ cx' = a[5] /\ cy' = a[6]
    /\ UNCHANGED <<sx, sy>>
    /\ Advance

Walkl_Absolute ==
    /\ At({"l"})
    /\ cx' = Cur.args[1] /\ cy' = Cur.args[2]
    /\ EmitPoint(LineTo(Transform(cx'), Transform(cy')), Transform(cx'), Transform(cy'))
    /\ UNCHANGED <<sx, sy>>
    /\ Advance

Walkl ==
    /\ At({"l"})
    /\ cx' = cx + Cur.args[1] /\ cy' = cy + Cur.args[2]
    /\ EmitPoint(LineTo(Transform(cx'), Transform(cy')), Transform(cx'), Transform(cy'))
    /\ UNCHANGED <<sx, sy>>
    /\ Advance

WalkL_SetsStart ==
    /\ At({"L"})
    /\ cx' = Cur.args[1] /\ cy' = Cur.args[2]
    /\ sx' = cx' /\ sy' = cy'
    /\ EmitPoint(LineTo(Transform(cx'), Transform(cy')), Transform(cx'), Transform(cy'))
    /\ Advance

WalkL ==
    /\ At({"L"})
    /\ cx' = Cur.args[1] /\ cy' = Cur.args[2]
    /\ EmitPoint(LineTo(Transform(cx'), Transform(cy')), Transform(cx'), Transform(cy'))
    /\ UNCHANGED <<sx, sy>>
    /\ Advance

Walkh_AnyCase ==
    /\ At({"h", "H"})
    /\ cx' = cx + Cur.args[1]
    /\ tikz_parts' = Append(tikz_parts, LineTo(Transform(cx'), Transform(cy)))
    /\ point_count' = point_count + 1
    /\ UNCHANGED <<cy, sx, sy, bbox_vars>>
    /\ Advance

\* h and v append a line and count a point; the bounding box is not touched
Walkh ==
    /\ At({"h"})
    /\ cx' = cx + Cur.args[1]
    /\ tikz_parts' = Append(tikz_parts, LineTo(Transform(cx'), Transform(cy)))
    /\ point_count' = point_count + 1
    /\ UNCHANGED <<cy, sx, sy, bbox_vars>>
    /\ Advance

Walkv ==
    /\ At({"v"})
    /\ cy' = cy + Cur.args[1]
    /\ tikz_parts' = Append(tikz_parts, LineTo(Transform(cx), Transform(cy')))
    /\ point_count' = point_count + 1
    /\ UNCHANGED <<cx, sx, sy, bbox_vars>>
    /\ Advance

WalkClose_CountsPoint ==
    /\ At({"z", "Z"})
    /\ tikz_parts' = Append(tikz_parts, CloseAndFill)
    /\ point_count' = point_count + 1
    /\ cx' = sx /\ cy' = sy
    /\ UNCHANGED <<sx, sy, bbox_vars>>
    /\ Advance

WalkClose ==
    /\ At({"z", "Z"})
    /\ tikz_parts' = Append(tikz_parts, CloseAndFill)
    /\ cx' = sx /\ cy' = sy
    /\ UNCHANGED <<sx, sy, point_count, bbox_vars>>
    /\ Advance

\* The kinds with a branch of their own in the walk.
Handled == {"M", "m", "c", "C", "l", "L", "h", "v", "z", "Z"}

\* Skip unknown commands
WalkUnknown ==
    /\ At(Letters \ Handled)
    /\ UNCHANGED walk_vars
    /\ Advance

Retained_CountOnly(count, parts) ==
    count >= min_path_points

\* point_count >= min_path_points and tikz_parts
Retained(count, parts) ==
    count >= min_path_points /\ parts # <<>>

\* The comment and fill group of a retained path.
TikzLine ==
    [pi |-> 0,
     point_count |-> point_count,
     bbox |-> "(" \o Fmt2(min_x) \o "," \o Fmt2(min_y) \o ")-("
              \o Fmt2(max_x) \o "," \o Fmt2(max_y) \o ")",
     size |-> Fmt2(ExtSub(max_x, min_x)) \o "x" \o Fmt2(ExtSub(max_y, min_y)),
     parts |-> tikz_parts]

\* After the last command: the path is retained or dropped.
Finish ==
    /\ pc = "walk"
    /\ ci > Len(commands)
    /\ tikz_lines' =
          IF Retained(point_count, tikz_parts)
          THEN Append(tikz_lines, TikzLine)
          ELSE tikz_lines
    /\ pc' = "done"
    /\ UNCHANGED <<doc_vars, commands, ci, walk_vars>>

Walk ==
    \/ WalkSkipMalformed
    \/ WalkM
    \/ Walkm
    \/ Walkc
    \/ WalkC
    \/ Walkl
    \/ WalkL
    \/ Walkh
    \/ Walkv
    \/ WalkClose
    \/ WalkUnknown

Next ==
    \/ SkipNoDescription
    \/ SkipFewCommands
    \/ StartWalk
    \/ Walk
    \/ Finish

Spec == Init /\ [][Next]_vars

---------------------------------------------------------------------------
(* Properties *)

\* The walk of the path took place.
Walked == ci > 0

\* The walk has just processed commands[ci - 1].
Prev == commands[ci - 1]

\* How many numbers follow position i before the next letter.
RECURSIVE RunLen(_, _)
RunLen(tokens, i) ==
    IF i >= Len(tokens) \/ isalpha(tokens[i + 1]) THEN 0
    ELSE 1 + RunLen(tokens, i + 1)

\* The description starts with a letter, and every letter is followed by
\* full argument groups of its kind: none for z/Z, one or more otherwise.
FullGroups(tokens) ==
    /\ tokens # <<>>
    /\ isalpha(tokens[1])
    /\ \A i \in DOMAIN tokens :
          isalpha(tokens[i]) =>
             LET n == RunLen(tokens, i)
                 a == arg_counts[tokens[i].c]
             IN  IF a = 0 THEN n = 0 ELSE n >= a /\ n % a = 0

\* C1: every command parse_svg_path returns carries as many arguments as the
\* arity of its kind; stated here for the descriptions that supply full
\* argument groups only, such as "M 0 0 L 10 10".
C1_ArityOfParsedCommands ==
    (pc # "read" /\ FullGroups(d)) =>
        \A k \in DOMAIN commands :
            Len(commands[k].args) = arg_counts[commands[k].cmd]

\* One letter of non-zero arity, then one or more full argument groups.
OneLetterGroups(tokens) ==
    /\ Len(tokens) >= 2
    /\ isalpha(tokens[1])
    /\ \A i \in 2..Len(tokens) : ~isalpha(tokens[i])
    /\ arg_counts[tokens[1].c] > 0
    /\ (Len(tokens) - 1) % arg_counts[tokens[1].c] = 0

\* The kind the k-th group of a one-letter description must come out as.
KindOfGroup(letter, k) ==
    IF k = 1 THEN letter
    ELSE IF letter = "M" THEN "L"
    ELSE IF letter = "m" THEN "l"
    ELSE letter

\* C2: a description of one letter followed by g >= 1 full argument groups
\* parses to exactly g commands in input order, the k-th carrying the k-th
\* group; the first has the letter's kind, the further ones the line kind of
\* the same case after a move and the same kind otherwise.
C2_ImplicitRepetition ==
    (pc # "read" /\ OneLetterGroups(d)) =>
        LET a == arg_counts[d[1].c]
            g == (Len(d) - 1) \div a
        IN  /\ Len(commands) = g
            /\ \A k \in 1..g :
                  /\ commands[k].cmd = KindOfGroup(d[1].c, k)
                  /\ commands[k].args = [j \in 1..a |-> d[1 + (k - 1) * a + j].v]

\* "M" then three pairs has come out as a move and two lines.
C2_Witness ==
    /\ pc # "read"
    /\ Len(d) = 7
    /\ OneLetterGroups(d)
    /\ d[1].c = "M"
    /\ Len(commands) = 3
    /\ commands[3] = Command("L", <<d[6].v, d[7].v>>)

\* "m dx0 dy0 l dx1 dy1 ... l dxk dyk"
IsRelChain(tokens) ==
    /\ Len(tokens) >= 3
    /\ Len(tokens) % 3 = 0
    /\ \A p \in DOMAIN tokens :
          IF p % 3 = 1
          THEN tokens[p] = Cmd(IF p = 1 THEN "m" ELSE "l")
          ELSE ~isalpha(tokens[p])

\* The sum of the first j deltas of a chain: off = 1 for x, 2 for y.
RECURSIVE DeltaSum(_, _, _)
DeltaSum(tokens, j, off) ==
    IF j = 0 THEN 0
    ELSE DeltaSum(tokens, j - 1, off) + tokens[3 * (j - 1) + 1 + off].v

\* C3: walking "m dx0 dy0" followed by k explicit "l dxi dyi" emits one
\* directive per command of the description and nothing else: a move-to, then
\* line-tos, each at the running sum of the deltas from (0,0), which is also
\* where the pen stands; at the end there are exactly k+1 of them.
C3_RelativeAccumulate ==
    (IsRelChain(d) /\ Walked) =>
        /\ Len(tikz_parts) = point_count
        /\ point_count <= Len(d) \div 3
        /\ cx = DeltaSum(d, point_count, 1)
        /\ cy = DeltaSum(d, point_count, 2)
        /\ \A j \in 1..Len(tikz_parts) :
              LET px == DeltaSum(d, j, 1) * target_width_cm
                  py == DeltaSum(d, j, 2) * target_width_cm
              IN  tikz_parts[j] = IF j = 1 THEN MoveTo(px, py) ELSE LineTo(px, py)
        /\ (pc = "done" => point_count = Len(d) \div 3)

\* "m 1 1 l 2 2 l 3 3" has been walked to the end: the pen is at (6,6).
C3_Witness ==
    /\ pc = "done"
    /\ Walked
    /\ d = RelHead \o RelTail
    /\ point_count = 3
    /\ cx = 6 /\ cy = 6

\* The arguments a command needs to be transformed, for the kinds the walk
\* transforms.
NeededToTransform ==
    ("M" :> 2 @@ "m" :> 2 @@ "L" :> 2 @@ "l" :> 2 @@ "C" :> 6 @@ "c" :> 6 @@
     "h" :> 1 @@ "v" :> 1)

Insufficient(c) ==
    c.cmd \in DOMAIN NeededToTransform /\ Len(c.args) < NeededToTransform[c.cmd]

\* A step of the walk that changes nothing but the position in the command
\* list, which moves to the next command of the same path.
NoEffectStep ==
    /\ walk_vars' = walk_vars
    /\ tikz_lines' = tikz_lines
    /\ commands' = commands
    /\ pc' = "walk"
    /\ ci' = ci + 1

\* C4: the walk passes over a command with fewer arguments than its
\* transformation needs without any effect: pen, subpath-start, directives,
\* point count and bounding box stay as they are, and the walk goes on with
\* the next command.
C4_InsufficientSkipped ==
    [][(InWalk /\ Insufficient(Cur)) => NoEffectStep]_vars

\* A command short of arguments has been passed over in the middle of a path
\* that has already emitted points, and commands remain.
C4_Witness ==
    /\ pc = "walk"
    /\ ci > 2
    /\ ci <= Len(commands)
    /\ Insufficient(Prev)
    /\ Prev.args # <<>>
    /\ point_count > 0

\* The command emits a directive when the walk reaches it.
Produces(c) ==
    /\ c.cmd \in {"M", "m", "L", "l", "C", "c", "h", "v", "z", "Z"}
    /\ ~Insufficient(c)

\* C5: a path is in the output only if its point count reaches the threshold
\* and it emitted a directive; a path none of whose commands emits a directive
\* is not in the output, whatever the threshold.
C5_RetainedOnlyIf ==
    /\ tikz_lines # <<>> =>
          /\ pc = "done"
          /\ Len(tikz_lines) = 1
          /\ tikz_lines[1].point_count = point_count
          /\ tikz_lines[1].parts = tikz_parts
          /\ point_count >= min_path_points
          /\ tikz_parts # <<>>
    /\ (pc = "done" /\ \A k \in DOMAIN commands : ~Produces(commands[k])) =>
          tikz_lines = <<>>

\* A path of unsupported or malformed commands only was walked under a
\* threshold of 0 or less, and is not in the output.
C5_Witness ==
    /\ pc = "done"
    /\ Walked
    /\ min_path_points <= 0
    /\ commands # <<>>
    /\ \A k \in DOMAIN commands : ~Produces(commands[k])
    /\ tikz_lines = <<>>

\* "M x y" and one close command.
IsMoveClose(tokens) ==
    /\ Len(tokens) = 4
    /\ tokens[1] = Cmd("M")
    /\ ~isalpha(tokens[2])
    /\ ~isalpha(tokens[3])
    /\ tokens[4] \in {Cmd("z"), Cmd("Z")}

\* C6: a description of one absolute move and one close, once walked, has
\* emitted exactly a move-to and a close-and-fill, with point count 1; and it
\* is not in the output when the threshold exceeds 2.
C6_MoveClose ==
    (IsMoveClose(d) /\ pc = "done") =>
        /\ Walked =>
              /\ tikz_parts =
                    <<MoveTo(d[2].v * target_width_cm, d[3].v * target_width_cm),
                      CloseAndFill>>
              /\ point_count = 1
        /\ min_path_points > 2 => tikz_lines = <<>>

\* Such a path was walked under the default threshold and dropped.
C6_Witness ==
    /\ IsMoveClose(d)
    /\ pc = "done"
    /\ Walked
    /\ min_path_points = DefaultMinPoints
    /\ Len(tikz_parts) = 2
    /\ tikz_lines = <<>>

\* C7: width 100pt, any height, target width 10, default threshold, the path
\* "M500,500 L1000,500 L1000,1000 Z": the path is retained with exactly these
\* four directives, point count 3 and this bounding box.  Each coordinate is
\* the source coordinate times 0.1 times target width / source width: at
\* width 725pt and target width 8, 500 comes out as 0.552 and 1000 as 1.103.
C7_EndToEnd ==
    (/\ pc = "done"
     /\ d = MoveAbs \o LinesClose
     /\ min_path_points = DefaultMinPoints) =>
        /\ Len(tikz_lines) = 1
        /\ tikz_lines[1].point_count = 3
        /\ (width_pt = 100 /\ target_width_cm = 10) =>
              /\ tikz_lines[1].parts =
                    <<"(5.000,5.000)", "-- (10.000,5.000)", "-- (10.000,10.000)",
                      "-- cycle">>
              /\ tikz_lines[1].bbox = "(5.00,5.00)-(10.00,10.00)"
        /\ (width_pt = 725 /\ target_width_cm = 8) =>
              /\ tikz_lines[1].parts =
                    <<"(0.552,0.552)", "-- (1.103,0.552)", "-- (1.103,1.103)",
                      "-- cycle">>
              /\ tikz_lines[1].bbox = "(0.55,0.55)-(1.10,1.10)"

\* That document, with a height other than its width, has been converted.
C7_Witness ==
    /\ pc = "done"
    /\ d = MoveAbs \o LinesClose
    /\ width_pt = 100
    /\ height_pt # width_pt
    /\ target_width_cm = 10
    /\ min_path_points = DefaultMinPoints
    /\ tikz_lines # <<>>

WellFormedMove(c) == c.cmd \in {"M", "m"} /\ Len(c.args) >= 2

\* C8: the subpath-start is (0,0) when the walk starts; a well-formed move
\* sets it to the pen position the move arrives at, and no other command
\* changes it; a close puts the pen on it and appends one close-and-fill,
\* leaving point count and bounding box alone.
C8_SubpathStart ==
    [][/\ (pc = "read" /\ pc' = "walk") => (sx' = 0 /\ sy' = 0 /\ cx' = 0 /\ cy' = 0)
       /\ (InWalk /\ WellFormedMove(Cur)) => (sx' = cx' /\ sy' = cy')
       /\ (InWalk /\ ~WellFormedMove(Cur)) => (sx' = sx /\ sy' = sy)
       /\ (InWalk /\ Cur.cmd \in {"z", "Z"}) =>
             /\ cx' = sx /\ cy' = sy
             /\ tikz_parts' = Append(tikz_parts, CloseAndFill)
             /\ point_count' = point_count
             /\ bbox_vars' = bbox_vars
      ]_vars

\* A close has just brought the pen back from a line's end point to the
\* start a move had set.
C8_Witness ==
    /\ pc = "walk"
    /\ ci > 3
    /\ Prev.cmd \in {"z", "Z"}
    /\ commands[ci - 2].cmd = "L"
    /\ commands[ci - 2].args # <<>>
    /\ commands[ci - 2].args # <<sx, sy>>
    /\ cx = sx /\ cy = sy
    /\ sx # 0

\* The kinds the transformer does not support.
Unsupported == {"A", "a", "Q", "q", "S", "s", "T", "t", "H", "V"}

\* C9: a command of an unsupported kind, whatever its argument count, is
\* passed over by the walk without any effect, and the walk goes on with the
\* next command.
C9_UnsupportedIgnored ==
    [][(InWalk /\ Cur.cmd \in Unsupported) => NoEffectStep]_vars

\* An unsupported command with a full argument group has been passed over in
\* a path that had emitted points, and commands remain.
C9_Witness ==
    /\ pc = "walk"
    /\ ci > 2
    /\ ci <= Len(commands)
    /\ Prev.cmd \in Unsupported
    /\ Len(Prev.args) = arg_counts[Prev.cmd]
    /\ point_count > 0

\* C10: a path in the output has a bounding box that some point has set:
\* min <= max on both axes, no infinite sentinel left; stated here for the
\* retained paths that emitted at least one point.
C10_BoundingBoxOfRetained ==
    (tikz_lines # <<>> /\ point_count > 0) =>
        /\ min_x.inf = 0 /\ max_x.inf = 0 /\ min_y.inf = 0 /\ max_y.inf = 0
        /\ min_x.num <= max_x.num
        /\ min_y.num <= max_y.num

====
